---- MODULE Spec2Model ----
(***************************************************************************)
(* Model of index.js: the multimodal embedding script.  One run of the     *)
(* script is: load-or-create the vector store (lines 90-92), ingest the    *)
(* fixed catalog when no store directory exists (lines 95-122), run one    *)
(* similarity query (line 127), save the store (line 132).  Runs follow    *)
(* each other sequentially against the same file system.                   *)
(*                                                                         *)
(* External collaborators (the embedding service, FaissStore, the file     *)
(* system) are modelled by their call contract: every call either          *)
(* completes or throws; a library call that throws has no effect (in       *)
(* particular FaissStore.save writes the whole store or nothing).          *)
(* Embedding vectors are opaque, so the documents a search returns are     *)
(* chosen nondeterministically among the stored ones.                      *)
(*                                                                         *)
(* Spec is the script as written, alone on its file system; SpecAPI puts   *)
(* any of the listed query calls in place of line 127; SpecEnv adds an     *)
(* actor that removes or writes the store directory while the script       *)
(* awaits FaissStore.load.                                                 *)
(***************************************************************************)
EXTENDS Integers, Sequences, FiniteSets, TLC

\* Bounds of the model.
MaxRuns == 2
MaxK == 2

VARIABLES
  pc,           \* position of the running script
  runs,         \* number of runs started so far
  disk,         \* the directory "vector_store": [exists, docs]
  out,          \* the directory "output": [exists, entries]
  mem,          \* the documents of the in-process vectorStore, in insertion order
  loaded,       \* TRUE when vectorStore came from FaissStore.load
  i,            \* loop index of the current ingestion loop
  id,           \* imageId / textId of the current ingestion loop
  cur,          \* arguments and locals of the addImage/addText call in progress
  query,        \* the similarity search call of the script: [fn, arg, results]
  results,      \* documents returned by the last completed search, best first
  log,          \* calls made by this run so far, in order
  err,          \* the call that threw in this run, or NoErr
  diskAtStart,  \* value of disk when this run started
  outBefore     \* value of out when this run's query was called

vars == <<pc, runs, disk, out, mem, loaded, i, id, cur, query, results, log, err,
          diskAtStart, outBefore>>

----------------------------------------------------------------------------
\* Program constants (index.js lines 97-109, 125-129).

images == << "images/dog.jpeg", "images/cat.jpg", "images/parrot.jpg",
             "images/iphone.jpeg", "images/steve.jpeg", "images/airpod.jpeg" >>

texts == << "Dogs are domesticated mammals.",
            "Apple Inc. is an American multinational technology company.",
            "Steve Jobs was the chairman, chief executive officer, and co-founder of Apple Inc." >>

\* The query the script runs (line 127).
ScriptQuery == [fn |-> "textSimilaritySearch", arg |-> "Mammals", results |-> 1]

\* The query calls the script lists (lines 125-129), with any result count up to MaxK.
Queries ==
  { [fn |-> f[1], arg |-> f[2], results |-> k] :
      f \in { <<"imageSimilaritySearch", "images/dog2.jpeg">>,
              <<"imageSimilaritySearch", "images/steve2.jpg">>,
              <<"textSimilaritySearch", "Mammals">>,
              <<"textSimilaritySearch", "Apple Inc">>,
              <<"textSimilaritySearch", "Steve Jobs">> },
      k \in 1..MaxK }

\* Bytes of the image files the script reads (fs.readFileSync, line 23).
FileBytes ==
  ("images/dog.jpeg" :> <<255>>) @@
  ("images/cat.jpg" :> <<0, 16>>) @@
  ("images/parrot.jpg" :> <<77, 97, 110>>) @@
  ("images/iphone.jpeg" :> <<1, 2, 3, 4>>) @@
  ("images/steve.jpeg" :> <<>>) @@
  ("images/airpod.jpeg" :> <<250, 251, 252, 253, 254>>)

----------------------------------------------------------------------------
\* Buffer.toString("base64") (line 26) and the "base64" decoding of
\* fs.writeFileSync (lines 80-84).

B64 == "ABCDEFGHIJKLMNOPQRSTUVWXYZabcdefghijklmnopqrstuvwxyz0123456789+/"

Chr(k) == SubSeq(B64, k + 1, k + 1)

Ord(c) == CHOOSE k \in 0..63 : Chr(k) = c

RECURSIVE toBase64(_)
toBase64(b) ==
  IF Len(b) = 0 THEN ""
  ELSE IF Len(b) = 1 THEN
    Chr(b[1] \div 4) \o Chr((b[1] % 4) * 16) \o "=="
  ELSE IF Len(b) = 2 THEN
    Chr(b[1] \div 4) \o Chr((b[1] % 4) * 16 + b[2] \div 16)
      \o Chr((b[2] % 16) * 4) \o "="
  ELSE
    Chr(b[1] \div 4) \o Chr((b[1] % 4) * 16 + b[2] \div 16)
      \o Chr((b[2] % 16) * 4 + b[3] \div 64) \o Chr(b[3] % 64)
      \o toBase64(SubSeq(b, 4, Len(b)))

\* The part of s before its first "=" (the decoder stops at the padding).
RECURSIVE beforePadding(_)
beforePadding(s) ==
  IF Len(s) = 0 \/ SubSeq(s, 1, 1) = "=" THEN ""
  ELSE SubSeq(s, 1, 1) \o beforePadding(SubSeq(s, 2, Len(s)))

RECURSIVE decodeGroups(_)
decodeGroups(s) ==
  LET c(k) == Ord(SubSeq(s, k, k)) IN
  IF Len(s) < 2 THEN << >>
  ELSE IF Len(s) = 2 THEN << c(1) * 4 + c(2) \div 16 >>
  ELSE IF Len(s) = 3 THEN
    << c(1) * 4 + c(2) \div 16, (c(2) % 16) * 16 + c(3) \div 4 >>
  ELSE
    << c(1) * 4 + c(2) \div 16, (c(2) % 16) * 16 + c(3) \div 4,
       (c(3) % 4) * 64 + c(4) >>
      \o decodeGroups(SubSeq(s, 5, Len(s)))

fromBase64(s) == decodeGroups(beforePadding(s))

----------------------------------------------------------------------------
\* String.prototype.split with a one-character separator, and Array.pop
\* (line 79).

RECURSIVE split(_, _)
split(s, sep) ==
  IF \E k \in 1..Len(s) : SubSeq(s, k, k) = sep THEN
    LET k == CHOOSE k \in 1..Len(s) :
               /\ SubSeq(s, k, k) = sep
               /\ \A j \in 1..(k - 1) : SubSeq(s, j, j) # sep
    IN << SubSeq(s, 1, k - 1) >> \o split(SubSeq(s, k + 1, Len(s)), sep)
  ELSE << s >>

\* Mutant of pop: takes the first segment of the path instead of the last.
pop_First(a) == a[1]

pop(a) == a[Len(a)]

----------------------------------------------------------------------------
\* Documents (lines 25-28 and 36-39).

imageDocument(path, n, img) ==
  [ pageContent |-> toBase64(img),
    metadata |-> [id |-> n, mediaType |-> "image", path |-> path] ]

\* Mutant of textDocument: the text document carries a path field too.
textDocument_WithPath(text, n) ==
  [ pageContent |-> text,
    metadata |-> [id |-> n, mediaType |-> "text", path |-> text] ]

textDocument(text, n) ==
  [ pageContent |-> text,
    metadata |-> [id |-> n, mediaType |-> "text"] ]

----------------------------------------------------------------------------
\* Directories.

NoEntries == [n \in {} |-> 0]

Absent == [exists |-> FALSE, docs |-> << >>]

File(bytes) == [kind |-> "file", data |-> bytes]
Dir == [kind |-> "dir", data |-> << >>]

\* States of the output directory a run can find.
OutStates ==
  { [exists |-> FALSE, entries |-> NoEntries],
    [exists |-> TRUE, entries |-> NoEntries],
    [exists |-> TRUE, entries |-> ("dog.jpeg" :> File(<<1>>))],
    [exists |-> TRUE, entries |-> ("notes.txt" :> File(<<7, 7>>)) @@ ("cat.jpg" :> File(<<>>))],
    [exists |-> TRUE, entries |-> ("old" :> Dir) @@ ("notes.txt" :> File(<<7, 7>>))] }

\* The orders in which fs.readdirSync can list the names of a set.
Orders(S) ==
  { s \in [1..Cardinality(S) -> S] : \A a, b \in 1..Cardinality(S) : s[a] = s[b] => a = b }

\* fs.unlinkSync over the listed names (lines 15-18): deletes files in order,
\* throws at the first name that is a directory.
RECURSIVE unlinkAll(_, _)
unlinkAll(entries, names) ==
  IF names = << >> THEN [threw |-> FALSE, entries |-> entries]
  ELSE IF entries[Head(names)].kind = "dir" THEN [threw |-> TRUE, entries |-> entries]
  ELSE unlinkAll([n \in (DOMAIN entries) \ {Head(names)} |-> entries[n]], Tail(names))

\* Mutant of clearDirectory: the listed files are not unlinked.
clearDirectory_KeepsFiles(dir, names) ==
  IF ~dir.exists THEN [threw |-> TRUE, dir |-> dir]
  ELSE [threw |-> unlinkAll(dir.entries, names).threw, dir |-> dir]

\* Mutant of clearDirectory: a missing directory is created instead of throwing.
clearDirectory_CreatesMissing(dir, names) ==
  IF ~dir.exists THEN [threw |-> FALSE, dir |-> [exists |-> TRUE, entries |-> NoEntries]]
  ELSE LET r == unlinkAll(dir.entries, names)
       IN [threw |-> r.threw, dir |-> [exists |-> TRUE, entries |-> r.entries]]

\* clearDirectory (lines 14-19): readdirSync throws when the directory is missing.
clearDirectory(dir, names) ==
  IF ~dir.exists THEN [threw |-> TRUE, dir |-> dir]
  ELSE LET r == unlinkAll(dir.entries, names)
       IN [threw |-> r.threw, dir |-> [exists |-> TRUE, entries |-> r.entries]]

\* fs.writeFileSync(`output/${filename}`, content, "base64") (lines 80-84).
writeFile(dir, filename, content) ==
  [dir EXCEPT !.entries =
     (filename :> File(fromBase64(content))) @@ dir.entries]

\* printResults (lines 72-87), applied to the result documents in order.
RECURSIVE printResults(_, _)
printResults(dir, res) ==
  IF res = << >> THEN dir
  ELSE LET item == Head(res) IN
    IF item.metadata.mediaType = "text" THEN printResults(dir, Tail(res))
    ELSE IF item.metadata.mediaType = "image" THEN
      printResults(writeFile(dir, pop(split(item.metadata.path, "/")), item.pageContent),
                   Tail(res))
    ELSE printResults(dir, Tail(res))

----------------------------------------------------------------------------
\* Calls and errors.

Call(fn, op, n) == [fn |-> fn, op |-> op, id |-> n]

NoErr == Call("", "", -1)
NoCur == [fn |-> "", arg |-> "", id |-> -1, img |-> << >>]

IsImageQuery(q) == q.fn = "imageSimilaritySearch"

\* The embedding call a query function makes (lines 49 and 62).
QueryEmbedOp(q) == IF IsImageQuery(q) THEN "embedImageQuery" ELSE "embedQuery"

\* The outcomes of similaritySearchVectorWithScore(v, k) (lines 50-53, 63-66):
\* min(k, number of stored documents) distinct stored documents, in any order.
Min(a, b) == IF a < b THEN a ELSE b

SearchResults(docs, k) ==
  LET n == Min(k, Len(docs)) IN
  { [j \in 1..n |-> docs[s[j]]] :
      s \in { t \in [1..n -> 1..Len(docs)] : \A a, b \in 1..n : t[a] = t[b] => a = b } }

----------------------------------------------------------------------------
\* The script, one action per step between two calls.

Fail(c) ==
  /\ pc' = "failed"
  /\ err' = c

\* Mutant of InitStore: a new empty store is created even when one is persisted.
InitStore_NeverLoads ==
  /\ pc = "start"
  /\ pc' = "check"
  /\ mem' = << >>
  /\ UNCHANGED <<runs, disk, out, loaded, i, id, cur, query, results, log, err,
                 diskAtStart, outBefore>>

\* Lines 90-92: let vectorStore = existsSync(path) ? await load(path) : new FaissStore.
InitStore ==
  /\ pc = "start"
  /\ IF disk.exists
       THEN /\ pc' = "load"
            /\ log' = Append(log, Call("main", "load", -1))
            /\ UNCHANGED mem
       ELSE /\ pc' = "check"
            /\ mem' = << >>
            /\ UNCHANGED log
  /\ UNCHANGED <<runs, disk, out, loaded, i, id, cur, query, results, err,
                 diskAtStart, outBefore>>

\* Line 91: FaissStore.load resolves with the persisted documents.
LoadOk ==
  /\ pc = "load"
  /\ disk.exists
  /\ mem' = disk.docs
  /\ loaded' = TRUE
  /\ pc' = "check"
  /\ UNCHANGED <<runs, disk, out, i, id, cur, query, results, log, err,
                 diskAtStart, outBefore>>

\* Line 91: FaissStore.load rejects.
LoadFail ==
  /\ pc = "load"
  /\ Fail(Call("main", "load", -1))
  /\ UNCHANGED <<runs, disk, out, mem, loaded, i, id, cur, query, results, log,
                 diskAtStart, outBefore>>

\* Mutant of CheckExists: the catalog is ingested whether or not the store exists.
CheckExists_AlwaysIngests ==
  /\ pc = "check"
  /\ pc' = "imgLoop"
  /\ i' = 0
  /\ id' = 0
  /\ UNCHANGED <<runs, disk, out, mem, loaded, cur, query, results, log, err,
                 diskAtStart, outBefore>>

\* Lines 95-96, 111 and 122: addItemsToVectorStore tests the store path again.
CheckExists ==
  /\ pc = "check"
  /\ IF ~disk.exists
       THEN /\ pc' = "imgLoop"
            /\ i' = 0
            /\ id' = 0
       ELSE /\ pc' = "query"
            /\ UNCHANGED <<i, id>>
  /\ UNCHANGED <<runs, disk, out, mem, loaded, cur, query, results, log, err,
                 diskAtStart, outBefore>>

\* Mutant of ImgLoop: textId starts at 0 instead of images.length.
ImgLoop_TextIdZero ==
  /\ pc = "imgLoop"
  /\ IF i < Len(images)
       THEN /\ cur' = [fn |-> "addImage", arg |-> images[i + 1], id |-> id,
                       img |-> FileBytes[images[i + 1]]]
            /\ log' = log \o << Call("addImage", "readFileSync", id),
                                Call("addImage", "embedImageQuery", id) >>
            /\ pc' = "embed"
            /\ UNCHANGED <<i, id>>
       ELSE /\ id' = 0
            /\ i' = 0
            /\ pc' = "txtLoop"
            /\ UNCHANGED <<cur, log>>
  /\ UNCHANGED <<runs, disk, out, mem, loaded, query, results, err,
                 diskAtStart, outBefore>>

\* Lines 112-115 and 22-24: the image loop calls addImage, which reads the file
\* and calls embedImageQuery; when the loop ends, textId = images.length.
ImgLoop ==
  /\ pc = "imgLoop"
  /\ IF i < Len(images)
       THEN /\ cur' = [fn |-> "addImage", arg |-> images[i + 1], id |-> id,
                       img |-> FileBytes[images[i + 1]]]
            /\ log' = log \o << Call("addImage", "readFileSync", id),
                                Call("addImage", "embedImageQuery", id) >>
            /\ pc' = "embed"
            /\ UNCHANGED <<i, id>>
       ELSE /\ id' = Len(images)
            /\ i' = 0
            /\ pc' = "txtLoop"
            /\ UNCHANGED <<cur, log>>
  /\ UNCHANGED <<runs, disk, out, mem, loaded, query, results, err,
                 diskAtStart, outBefore>>

\* Line 23: fs.readFileSync throws.
ReadFail ==
  /\ pc = "imgLoop"
  /\ i < Len(images)
  /\ log' = Append(log, Call("addImage", "readFileSync", id))
  /\ Fail(Call("addImage", "readFileSync", id))
  /\ UNCHANGED <<runs, disk, out, mem, loaded, i, id, cur, query, results,
                 diskAtStart, outBefore>>

\* Lines 116-117 and 34-35: the text loop calls addText, which calls embedQuery.
TxtLoop ==
  /\ pc = "txtLoop"
  /\ IF i < Len(texts)
       THEN /\ cur' = [fn |-> "addText", arg |-> texts[i + 1], id |-> id, img |-> << >>]
            /\ log' = Append(log, Call("addText", "embedQuery", id))
            /\ pc' = "embed"
       ELSE /\ pc' = "query"
            /\ UNCHANGED <<cur, log>>
  /\ UNCHANGED <<runs, disk, out, mem, loaded, i, id, query, results, err,
                 diskAtStart, outBefore>>

\* Lines 25-29 and 36-40: the document built after the embedding resolved.
Document(c) ==
  IF c.fn = "addImage" THEN imageDocument(c.arg, c.id, c.img)
  ELSE textDocument(c.arg, c.id)

\* Lines 24-29 and 35-40: the embedding resolves, addVectors is called.
EmbedOk ==
  /\ pc = "embed"
  /\ log' = Append(log, Call(cur.fn, "addVectors", cur.id))
  /\ pc' = "add"
  /\ UNCHANGED <<runs, disk, out, mem, loaded, i, id, cur, query, results, err,
                 diskAtStart, outBefore>>

\* Lines 24 and 35: the embedding call rejects.
EmbedFail ==
  /\ pc = "embed"
  /\ Fail(log[Len(log)])
  /\ UNCHANGED <<runs, disk, out, mem, loaded, i, id, cur, query, results, log,
                 diskAtStart, outBefore>>

\* Lines 29-30, 40-41 and the loop increments of lines 112 and 116.
AddOk ==
  /\ pc = "add"
  /\ mem' = Append(mem, Document(cur))
  /\ i' = i + 1
  /\ id' = id + 1
  /\ pc' = IF cur.fn = "addImage" THEN "imgLoop" ELSE "txtLoop"
  /\ cur' = NoCur
  /\ UNCHANGED <<runs, disk, out, loaded, query, results, log, err,
                 diskAtStart, outBefore>>

\* Mutant of AddFail: the error is recorded and the loop goes on with the next item.
AddFail_Continues ==
  /\ pc = "add"
  /\ err' = log[Len(log)]
  /\ i' = i + 1
  /\ id' = id + 1
  /\ pc' = IF cur.fn = "addImage" THEN "imgLoop" ELSE "txtLoop"
  /\ UNCHANGED <<runs, disk, out, mem, loaded, cur, query, results, log,
                 diskAtStart, outBefore>>

\* Lines 29 and 40: addVectors rejects.
AddFail ==
  /\ pc = "add"
  /\ Fail(log[Len(log)])
  /\ UNCHANGED <<runs, disk, out, mem, loaded, i, id, cur, query, results, log,
                 diskAtStart, outBefore>>

\* Lines 46-49 and 60-62: the query function clears the output directory,
\* (image query) reads the query file, and calls the embedding service.
QueryStart ==
  /\ pc = "query"
  /\ \E names \in Orders(DOMAIN out.entries) :
       LET r == clearDirectory(out, names) IN
         /\ ~r.threw
         /\ out' = r.dir
  /\ outBefore' = out
  /\ log' = log \o << Call(query.fn, "clearDirectory", -1) >>
                \o (IF IsImageQuery(query)
                      THEN << Call(query.fn, "readFileSync", -1) >> ELSE << >>)
                \o << Call(query.fn, QueryEmbedOp(query), -1) >>
  /\ pc' = "qEmbed"
  /\ UNCHANGED <<runs, disk, mem, loaded, i, id, cur, query, results, err, diskAtStart>>

\* Lines 46 and 60: clearDirectory throws.
QueryClearFail ==
  /\ pc = "query"
  /\ \E names \in Orders(DOMAIN out.entries) :
       LET r == clearDirectory(out, names) IN
         /\ r.threw
         /\ out' = r.dir
  /\ outBefore' = out
  /\ log' = Append(log, Call(query.fn, "clearDirectory", -1))
  /\ Fail(Call(query.fn, "clearDirectory", -1))
  /\ UNCHANGED <<runs, disk, mem, loaded, i, id, cur, query, results, diskAtStart>>

\* Line 48: fs.readFileSync of the query image throws, after the directory was cleared.
QueryReadFail ==
  /\ pc = "query"
  /\ IsImageQuery(query)
  /\ \E names \in Orders(DOMAIN out.entries) :
       LET r == clearDirectory(out, names) IN
         /\ ~r.threw
         /\ out' = r.dir
  /\ outBefore' = out
  /\ log' = log \o << Call(query.fn, "clearDirectory", -1),
                      Call(query.fn, "readFileSync", -1) >>
  /\ Fail(Call(query.fn, "readFileSync", -1))
  /\ UNCHANGED <<runs, disk, mem, loaded, i, id, cur, query, results, diskAtStart>>

\* Lines 49-50 and 62-63: the query embedding resolves, the search is called.
QEmbedOk ==
  /\ pc = "qEmbed"
  /\ log' = Append(log, Call(query.fn, "similaritySearchVectorWithScore", -1))
  /\ pc' = "search"
  /\ UNCHANGED <<runs, disk, out, mem, loaded, i, id, cur, query, results, err,
                 diskAtStart, outBefore>>

\* Lines 49 and 62: the query embedding rejects.
QEmbedFail ==
  /\ pc = "qEmbed"
  /\ Fail(log[Len(log)])
  /\ UNCHANGED <<runs, disk, out, mem, loaded, i, id, cur, query, results, log,
                 diskAtStart, outBefore>>

\* Lines 50-55, 63-68 and 132: the search resolves, printResults renders the
\* results, and the script calls vectorStore.save.
SearchOk ==
  /\ pc = "search"
  /\ \E res \in SearchResults(mem, query.results) :
       /\ results' = res
       /\ out' = printResults(out, res)
  /\ log' = log \o << Call(query.fn, "printResults", -1), Call("main", "save", -1) >>
  /\ pc' = "save"
  /\ UNCHANGED <<runs, disk, mem, loaded, i, id, cur, query, err, diskAtStart, outBefore>>

\* Lines 50 and 63: the search rejects.
SearchFail ==
  /\ pc = "search"
  /\ Fail(log[Len(log)])
  /\ UNCHANGED <<runs, disk, out, mem, loaded, i, id, cur, query, results, log,
                 diskAtStart, outBefore>>

\* Mutant of SaveOk: nothing is written to the store path.
SaveOk_KeepsDisk ==
  /\ pc = "save"
  /\ pc' = "done"
  /\ UNCHANGED <<runs, disk, out, mem, loaded, i, id, cur, query, results, log, err,
                 diskAtStart, outBefore>>

\* Line 132: save resolves, the directory holds the store's documents.
SaveOk ==
  /\ pc = "save"
  /\ disk' = [exists |-> TRUE, docs |-> mem]
  /\ pc' = "done"
  /\ UNCHANGED <<runs, out, mem, loaded, i, id, cur, query, results, log, err,
                 diskAtStart, outBefore>>

\* Line 132: save rejects.
SaveFail ==
  /\ pc = "save"
  /\ Fail(log[Len(log)])
  /\ UNCHANGED <<runs, disk, out, mem, loaded, i, id, cur, query, results, log,
                 diskAtStart, outBefore>>

\* The script is started again after the previous run ended; the output
\* directory is in any of the states a run can find (files of an earlier
\* query, other files, a subdirectory, nothing, or no directory).
NewRun ==
  /\ pc \in {"done", "failed"}
  /\ runs < MaxRuns
  /\ runs' = runs + 1
  /\ out' \in OutStates
  /\ pc' = "start"
  /\ mem' = << >>
  /\ loaded' = FALSE
  /\ i' = 0
  /\ id' = 0
  /\ cur' = NoCur
  /\ results' = << >>
  /\ log' = << >>
  /\ err' = NoErr
  /\ diskAtStart' = disk
  /\ outBefore' = out'
  /\ UNCHANGED <<disk, query>>

----------------------------------------------------------------------------

InitRun(q) ==
  /\ pc = "start"
  /\ runs = 1
  /\ disk = Absent
  /\ out \in OutStates
  /\ mem = << >>
  /\ loaded = FALSE
  /\ i = 0
  /\ id = 0
  /\ cur = NoCur
  /\ query = q
  /\ results = << >>
  /\ log = << >>
  /\ err = NoErr
  /\ diskAtStart = disk
  /\ outBefore = out

\* The script as written: one text query, one result.
Init == InitRun(ScriptQuery)

Next ==
  \/ InitStore \/ LoadOk \/ LoadFail \/ CheckExists
  \/ ImgLoop \/ ReadFail \/ TxtLoop \/ EmbedOk \/ EmbedFail \/ AddOk \/ AddFail
  \/ QueryStart \/ QueryClearFail \/ QEmbedOk \/ QEmbedFail
  \/ SearchOk \/ SearchFail \/ SaveOk \/ SaveFail
  \/ NewRun

Spec == Init /\ [][Next]_vars

\* The script with any of the query calls it lists in place of line 127.
InitAPI == \E q \in Queries : InitRun(q)

NextAPI == Next \/ QueryReadFail

SpecAPI == InitAPI /\ [][NextAPI]_vars

----------------------------------------------------------------------------
\* Another actor on the store path.  The store a complete run of another
\* instance of the script saves (lines 97-117 and 132):
CatalogDocs ==
  [k \in 1..(Len(images) + Len(texts)) |->
     IF k <= Len(images)
       THEN imageDocument(images[k], k - 1, FileBytes[images[k]])
       ELSE textDocument(texts[k - Len(images)], k - 1)]

\* The script is suspended at the await of line 91: from the call of
\* FaissStore.load until it resumes and calls addItemsToVectorStore.
AwaitingLoad == pc = "load" \/ (pc = "check" /\ loaded)

\* The store directory is removed while the script awaits the load.
EnvRemove ==
  /\ AwaitingLoad
  /\ disk.exists
  /\ disk' = Absent
  /\ UNCHANGED <<pc, runs, out, mem, loaded, i, id, cur, query, results, log, err,
                 diskAtStart, outBefore>>

\* Another instance of the script saves its store while the script awaits the load.
EnvCreate ==
  /\ AwaitingLoad
  /\ ~disk.exists
  /\ disk' = [exists |-> TRUE, docs |-> CatalogDocs]
  /\ UNCHANGED <<pc, runs, out, mem, loaded, i, id, cur, query, results, log, err,
                 diskAtStart, outBefore>>

NextEnv == Next \/ EnvRemove \/ EnvCreate

SpecEnv == Init /\ [][NextEnv]_vars

----------------------------------------------------------------------------
\* Properties.

IngestFns == {"addImage", "addText"}
QueryFns == {"textSimilaritySearch", "imageSimilaritySearch"}

\* Number of calls of the log that satisfy P.
Count(P(_)) == Cardinality({k \in 1..Len(log) : P(log[k])})

\* The query of this run returned from printResults.
QueryCompleted == pc \in {"save", "done"} \/ (pc = "failed" /\ err.op = "save")

\* The catalog item with id n, as the script's arrays list it.
CatalogSize == Len(images) + Len(texts)
IsCatalogItem(d, n) ==
  /\ d.metadata.id = n
  /\ IF n < Len(images)
       THEN /\ d.metadata.mediaType = "image"
            /\ d.metadata.path = images[n + 1]
       ELSE /\ d.metadata.mediaType = "text"
            /\ d.pageContent = texts[n + 1 - Len(images)]

\* C1: a run that starts with a persisted store loads it and ingests nothing:
\* no call is made by addImage or addText (no file read, no ingestion
\* embedding, no addVectors), the in-memory store is the persisted one, and
\* the store holds as many documents at the end of the run as at its start.
C1_IdempotentIngestion ==
  diskAtStart.exists =>
    /\ Count(LAMBDA c : c.fn \in IngestFns) = 0
    /\ pc \notin {"load", "check"} => i = 0 /\ id = 0 /\ cur = NoCur
    /\ pc \in {"query", "qEmbed", "search", "save", "done"} =>
         loaded /\ mem = diskAtStart.docs
    /\ Len(disk.docs) = Len(diskAtStart.docs)
    /\ pc = "done" => disk.exists /\ Len(mem) = Len(diskAtStart.docs)

C1_Witness ==
  /\ diskAtStart.exists
  /\ pc = "done"
  /\ Len(diskAtStart.docs) = CatalogSize

\* C2: in a run that starts without a persisted store, the documents are
\* added in catalog order with ids 0..8: the k-th addVectors call carries id
\* k-1, the k-th stored document is catalog item k-1 (images 0-5, texts 6-8),
\* and when the query starts all 9 are stored.
C2_IdsInCatalogOrder ==
  ~diskAtStart.exists =>
    /\ Len(mem) <= CatalogSize
    /\ \A k \in 1..Len(mem) : IsCatalogItem(mem[k], k - 1)
    /\ \A k \in 1..Len(log) :
         log[k].op = "addVectors" =>
           log[k].id = Cardinality({j \in 1..(k - 1) : log[j].op = "addVectors"})
    /\ pc \in {"query", "qEmbed", "search", "save", "done"} => Len(mem) = CatalogSize

C2_Witness ==
  /\ ~diskAtStart.exists
  /\ pc = "done"
  /\ Len(mem) = 9
  /\ mem[6].metadata.id = 5
  /\ mem[7].metadata.id = 6

\* C3: after a completed query whose results are all of mediaType text, the
\* output directory has no entry, whatever it held before the query.
C3_OutputCleared ==
  (QueryCompleted /\ \A k \in 1..Len(results) : results[k].metadata.mediaType = "text")
    => out.exists /\ DOMAIN out.entries = {}

C3_Witness ==
  /\ pc = "save"
  /\ results # << >>
  /\ \A k \in 1..Len(results) : results[k].metadata.mediaType = "text"
  /\ DOMAIN outBefore.entries # {}
  /\ DOMAIN out.entries = {}

\* The stage of a run a call belongs to: 1 load and ingestion, 2 query, 3 save.
Stage(c) ==
  IF c.op = "save" THEN 3 ELSE IF c.fn \in QueryFns THEN 2 ELSE 1

\* C4: the calls of a run are ordered ingestion-or-skip, then the query, then
\* the save; the query starts only when the catalog is ingested or the store
\* was loaded; a run that ends without error made exactly one query, a text
\* query, then one save, and leaves the store persisted at the store path.
C4_RunOrder ==
  /\ \A j, k \in 1..Len(log) : j < k => Stage(log[j]) <= Stage(log[k])
  /\ Count(LAMBDA c : Stage(c) = 2) > 0 =>
       \/ loaded /\ Count(LAMBDA c : c.fn \in IngestFns) = 0
       \/ ~loaded /\ Count(LAMBDA c : c.op = "addVectors") = CatalogSize
                  /\ Len(mem) = CatalogSize
  /\ pc = "done" =>
       /\ err = NoErr
       /\ Count(LAMBDA c : c.op = "clearDirectory") = 1
       /\ Count(LAMBDA c : c.op = "similaritySearchVectorWithScore") = 1
       /\ Count(LAMBDA c : c.op = "printResults") = 1
       /\ \A k \in 1..Len(log) : Stage(log[k]) = 2 => log[k].fn = "textSimilaritySearch"
       /\ Count(LAMBDA c : c.op = "save") = 1
       /\ log[Len(log)].op = "save"
       /\ disk.exists
       /\ disk.docs = mem

C4_Witness ==
  /\ pc = "done"
  /\ loaded
  /\ runs = 2

\* C5: a query called while the output directory is missing throws in
\* clearDirectory, its first call: no query file is read, no query embedding
\* and no search is made, the directory is still missing, and the run ends in
\* error without calling save, the store path unchanged.
C5_MissingOutputFatal ==
  (~outBefore.exists /\ Count(LAMBDA c : c.fn \in QueryFns) > 0) =>
    /\ pc = "failed"
    /\ err = Call(query.fn, "clearDirectory", -1)
    /\ Count(LAMBDA c : c.fn \in QueryFns) = 1
    /\ log[Len(log)] = err
    /\ Count(LAMBDA c : c.op = "save") = 0
    /\ ~out.exists
    /\ disk = diskAtStart

C5_Witness ==
  /\ pc = "failed"
  /\ err.op = "clearDirectory"
  /\ ~outBefore.exists
  /\ IsImageQuery(query)
  /\ Len(mem) = CatalogSize

\* C6: when a call of addImage or addText throws for item n, the run ends in
\* error at that call: every call of the run belongs to ingestion and to an
\* item up to n, no call was made twice, the items before n are stored and
\* item n is not, and the store path holds what it held when the run started.
C6_IngestionFailureAborts ==
  err.fn \in IngestFns =>
    /\ pc = "failed"
    /\ log[Len(log)] = err
    /\ \A k \in 1..Len(log) : log[k].fn \in IngestFns /\ log[k].id <= err.id
    /\ \A j, k \in 1..Len(log) : log[j] = log[k] => j = k
    /\ Len(mem) = err.id
    /\ \A k \in 1..Len(mem) : mem[k].metadata.id = k - 1
    /\ disk = diskAtStart

C6_Witness ==
  /\ pc = "failed"
  /\ err = Call("addImage", "addVectors", 3)
  /\ Len(mem) = 3

\* The file name each catalog image is written under.
ImageBasename ==
  ("images/dog.jpeg" :> "dog.jpeg") @@ ("images/cat.jpg" :> "cat.jpg") @@
  ("images/parrot.jpg" :> "parrot.jpg") @@ ("images/iphone.jpeg" :> "iphone.jpeg") @@
  ("images/steve.jpeg" :> "steve.jpeg") @@ ("images/airpod.jpeg" :> "airpod.jpeg")

\* C7: after a completed query the entries of the output directory are
\* exactly the basenames of the image results, each a file holding the bytes
\* of the image the document was made from; text results write nothing.
C7_Rendering ==
  QueryCompleted =>
    LET imgs == {k \in 1..Len(results) : results[k].metadata.mediaType = "image"} IN
    /\ out.exists
    /\ DOMAIN out.entries = {ImageBasename[results[k].metadata.path] : k \in imgs}
    /\ \A k \in imgs :
         out.entries[ImageBasename[results[k].metadata.path]]
           = File(FileBytes[results[k].metadata.path])

C7_Witness ==
  /\ pc = "save"
  /\ Len(results) = 2
  /\ results[1].metadata.mediaType = "text"
  /\ results[2].metadata.mediaType = "image"
  /\ results[2].metadata.path = "images/airpod.jpeg"
  /\ DOMAIN outBefore.entries = {"notes.txt", "cat.jpg"}

\* C8: every document of the store has mediaType "text" or "image"; an image
\* document has a path field naming the file its content was read from; a
\* text document has the fields id and mediaType only.
C8_MetadataConsistency ==
  \A k \in 1..Len(mem) :
    LET m == mem[k].metadata IN
    /\ m.mediaType \in {"text", "image"}
    /\ m.mediaType = "image" =>
         /\ DOMAIN m = {"id", "mediaType", "path"}
         /\ m.path \in DOMAIN FileBytes
         /\ mem[k].pageContent = toBase64(FileBytes[m.path])
    /\ m.mediaType = "text" => DOMAIN m = {"id", "mediaType"}

C8_Witness ==
  /\ pc = "add"
  /\ cur.fn = "addText"
  /\ Len(mem) = 8

C10_ChecksAgree ==
  /\ Count(LAMBDA c : c.fn \in IngestFns) > 0 => ~loaded
  /\ pc \in {"imgLoop", "txtLoop", "embed", "add"} => ~loaded
  /\ (pc \in {"query", "qEmbed", "search", "save", "done"} /\ ~loaded)
       => Count(LAMBDA c : c.op = "addVectors") = CatalogSize
  /\ Count(LAMBDA c : c.op = "save") > 0 => mem # << >>
  /\ Len(mem) <= CatalogSize

====
